---- MODULE Spec2Model ----
(***************************************************************************)
(* Confidence fusion and the GET /api/miners re-verification cycle of the  *)
(* miner dashboard (src/server/routes/miners.ts) with the collectors it    *)
(* awaits (geo lookup, network scan, RF analysis).                         *)
(*                                                                         *)
(* Numbers.  A JavaScript number is modelled as a fixed-point integer in   *)
(* units of 1/Unit, so 48.3 is 4830000.  The fusion weights are kept in    *)
(* tenths (0.4 is 4).  Three values stand for the non-numbers of the       *)
(* language: NaN, Undefined (a missing field) and Null.  Geographic        *)
(* coordinates are in 1/10000 of a degree.  The clock advances by one each *)
(* time a request is accepted.                                             *)
(***************************************************************************)
EXTENDS Integers, Sequences, FiniteSets, TLC

VARIABLES
    detectedMiners,  \* the detected_miners table: device id -> row
    cycle,           \* per request and device: the async device cycle
    now,             \* the wall clock read by new Date(); it advances as requests arrive
    started,         \* number of device cycles started so far
    reply,           \* per request: the HTTP response sent so far
    fuse,            \* one isolated call of calculateConfidenceScore
    probe,           \* one isolated call of a collector or of a utility function
    storage,         \* StorageManager: devices, scan results, alerts and the cleanup job
    refreshLoop,     \* successive cycles of one device under constant signals
    webSocket,       \* the useWebSocket hook of one mounted component
    interactiveMap   \* the InteractiveMap component: retry counter and refreshes

vars == <<detectedMiners, cycle, now, started, reply, fuse, probe,
          storage, refreshLoop, webSocket, interactiveMap>>

\* the variables of the components other than the re-verification cycle
others == <<storage, refreshLoop, webSocket, interactiveMap>>

---------------------------------------------------------------------------
(* Bounds of the model *)

MaxCycles == 3       \* device cycles started in one behaviour
MaxInFlight == 2     \* device cycles in flight at the same time

Devices == {1, 2}
Requests == {1, 2}

---------------------------------------------------------------------------
(* Number representation *)

Unit == 100000

NaN == 0 - 2000000000
Undefined == NaN + 1
Null == NaN + 2
NullText == "<null>"
NullObj == [isNull |-> TRUE]

\* ToNumber: undefined -> NaN, null -> 0
Num(x) == IF x = Undefined THEN NaN ELSE IF x = Null THEN 0 ELSE x

IsNaN(x) == Num(x) = NaN

Add(a, b) == IF IsNaN(a) \/ IsNaN(b) THEN NaN ELSE Num(a) + Num(b)

\* number * integer literal
Times(a, k) == IF IsNaN(a) THEN NaN ELSE Num(a) * k

\* weight (in tenths) * number
Weighted(w, a) == IF IsNaN(a) THEN NaN ELSE (w * Num(a)) \div 10

MathMax(a, b) == IF IsNaN(a) \/ IsNaN(b) THEN NaN
                 ELSE IF Num(a) >= Num(b) THEN Num(a) ELSE Num(b)

MathMin(a, b) == IF IsNaN(a) \/ IsNaN(b) THEN NaN
                 ELSE IF Num(a) <= Num(b) THEN Num(a) ELSE Num(b)

MathAbs(a) == IF IsNaN(a) THEN NaN ELSE IF Num(a) < 0 THEN 0 - Num(a) ELSE Num(a)

\* a > b; false as soon as one side is NaN
Gt(a, b) == ~IsNaN(a) /\ ~IsNaN(b) /\ Num(a) > Num(b)

\* truthiness of a number (x || d) and of an object reference
Falsy(x) == x \in {0, NaN, Undefined, Null}
Truthy(obj) == obj # NullObj

---------------------------------------------------------------------------
(* Confidence Fuser: calculateConfidenceScore *)

weights == [network |-> 4, rf |-> 3, geo |-> 2, history |-> 1]

NetworkTermDefault(networkData) ==
    IF Truthy(networkData)
    THEN Weighted(weights.network,
             Add(Add(Times(networkData.miningPortsDetected, 20),
                     Times(networkData.highBandwidthUsage, 15)),
                 Times(networkData.suspiciousConnections, 10)))
    ELSE Weighted(weights.network, 50 * Unit)

NetworkTerm(networkData) ==
    IF Truthy(networkData)
    THEN Weighted(weights.network,
             Add(Add(Times(networkData.miningPortsDetected, 20),
                     Times(networkData.highBandwidthUsage, 15)),
                 Times(networkData.suspiciousConnections, 10)))
    ELSE 0

RFTerm(rfData) ==
    IF Truthy(rfData)
    THEN Weighted(weights.rf,
             Add(Times(rfData.powerConsumption, 25),
                 Times(rfData.heatSignature, 15)))
    ELSE 0

GeoTerm(geoData) ==
    IF Truthy(geoData) /\ "in_ilam" \in DOMAIN geoData /\ geoData.in_ilam = TRUE
    THEN Weighted(weights.geo, 100 * Unit)
    ELSE 0

historyScoreAsIs(device) == device.confidenceScore

historyScore(device) ==
    IF Falsy(device.confidenceScore) THEN 50 * Unit ELSE device.confidenceScore

HistoryTermFullWeight(device) == historyScore(device)

HistoryTerm(device) == Weighted(weights.history, historyScore(device))

calculateConfidenceScore(device, networkData, rfData, geoData) ==
    LET score == Add(Add(Add(Add(0, NetworkTerm(networkData)),
                             RFTerm(rfData)),
                         GeoTerm(geoData)),
                     HistoryTerm(device))
    IN MathMin(100 * Unit, MathMax(0, score))

---------------------------------------------------------------------------
(* Isolated calls of the Fuser over a bounded input domain *)

FusePorts == {p * Unit : p \in 0..5} \cup {11 * Unit, Undefined}
FuseBandwidth == {0, Unit \div 2, Unit, 3 * Unit, NaN}
FuseSuspicious == {0, Unit \div 10, Unit, NaN}
FusePower == {0, (4 * Unit) \div 10, Unit, 0 - 200 * Unit, NaN}
FuseHeat == {0, (2 * Unit) \div 10, Unit, NaN}
FusePrior == {0, Unit, 50 * Unit, 60 * Unit, 100 * Unit, 400 * Unit, Undefined}

FuseNetworkData ==
    {NullObj} \cup
    [miningPortsDetected : FusePorts,
     highBandwidthUsage : FuseBandwidth,
     suspiciousConnections : FuseSuspicious]

FuseRFData ==
    {NullObj} \cup [powerConsumption : FusePower, heatSignature : FuseHeat]

FuseGeoData ==
    {NullObj,
     [latitude |-> Null, longitude |-> Null],
     [latitude |-> 336000, longitude |-> 464000, in_ilam |-> TRUE],
     [latitude |-> 357000, longitude |-> 514000, in_ilam |-> FALSE]}

NoCall == [pc |-> "none"]

FuseCalls ==
    {[pc |-> "call", device |-> [confidenceScore |-> c], networkData |-> n,
      rfData |-> r, geoData |-> g, result |-> Undefined] :
        c \in FusePrior, n \in FuseNetworkData, r \in FuseRFData, g \in FuseGeoData}

FuseCall ==
    /\ fuse.pc = "call"
    /\ fuse' = [fuse EXCEPT
                  !.pc = "returned",
                  !.result = calculateConfidenceScore(fuse.device, fuse.networkData,
                                                      fuse.rfData, fuse.geoData)]
    /\ UNCHANGED <<detectedMiners, cycle, now, started, reply, probe, others>>

---------------------------------------------------------------------------
(* Signal collectors *)

ILAM_BOUNDS == [north |-> 345000, south |-> 320000, east |-> 485000, west |-> 455000]

isInIlamBounds(lat, lon) ==
    /\ lat >= ILAM_BOUNDS.south
    /\ lat <= ILAM_BOUNDS.north
    /\ lon >= ILAM_BOUNDS.west
    /\ lon <= ILAM_BOUNDS.east

\* what the ipapi.co request can come back with
GeoResponses ==
    {[ok |-> TRUE, city |-> "Ilam", country_name |-> "Iran",
      latitude |-> 336000, longitude |-> 464000],
     [ok |-> FALSE, city |-> "", country_name |-> "",
      latitude |-> Undefined, longitude |-> Undefined]}

OrNull(x) == IF Falsy(x) THEN Null ELSE x

\* text || null
OrNullText(text) == IF text \in {NullText, ""} THEN NullText ELSE text

lookupLocation(response) ==
    IF response.ok
    THEN [city |-> OrNullText(response.city),
          country |-> OrNullText(response.country_name),
          latitude |-> OrNull(response.latitude),
          longitude |-> OrNull(response.longitude)]
    ELSE [city |-> NullText, country |-> NullText,
          latitude |-> Null, longitude |-> Null]

\* a settled promise
Fulfilled(v) == [settled |-> "fulfilled", value |-> v]
Rejected == [settled |-> "rejected", value |-> [error |-> TRUE]]

MINING_PORTS == {3333, 3334, 3335, 8332, 8333, 4444, 4445, 7777, 7778, 9332, 9333}

\* the pool addresses loaded by loadSuspiciousIPs
SUSPICIOUS_IPS == {"185.0.0.9"}

\* reachable: the ports on which checkPort connects; a probe that fails or
\* times out is caught and leaves its port out
scanPorts(reachable) == Fulfilled({port \in MINING_PORTS : port \in reachable})

calculatePortScore(openPorts) == MathMin(5 * Unit, Cardinality(openPorts) * Unit)

convertToMBps(value, unit) ==
    CASE unit = "KB" -> value \div 1024
      [] unit = "GB" -> value * 1024
      [] OTHER -> value

\* a line of nethogs output either matches <number> KB|MB|GB/s or does not
RECURSIVE parseBandwidthUsage(_)
parseBandwidthUsage(stdout) ==
    IF stdout = << >> THEN 0
    ELSE (IF Head(stdout).match
          THEN convertToMBps(Head(stdout).value, Head(stdout).unit)
          ELSE 0) + parseBandwidthUsage(Tail(stdout))

normalizeBandwidthUsage(mbps) == MathMin(Unit, mbps \div 100)

checkBandwidthUsageNoCatch(nethogs) ==
    IF nethogs.ok
    THEN Fulfilled(normalizeBandwidthUsage(parseBandwidthUsage(nethogs.stdout)))
    ELSE Rejected

\* nethogs: the outcome of exec("nethogs -t -c 5 | grep ip")
checkBandwidthUsage(nethogs) ==
    IF nethogs.ok
    THEN Fulfilled(normalizeBandwidthUsage(parseBandwidthUsage(nethogs.stdout)))
    ELSE Fulfilled(0)

NonBlank(line) == ~line.blank

IsSuspicious(conn) == conn.remoteIP # "" /\ conn.remoteIP \in SUSPICIOUS_IPS

\* a / n of two counts; 0 / 0 is NaN
Ratio(a, n) == IF n = 0 THEN NaN ELSE (a * Unit) \div n

\* netstat: the outcome of exec("netstat -n | grep ip")
checkConnections(netstat) ==
    IF netstat.ok
    THEN LET connections == SelectSeq(netstat.stdout, NonBlank)
             suspiciousCount == Len(SelectSeq(connections, IsSuspicious))
         IN Fulfilled(MathMin(Unit, Ratio(suspiciousCount, Len(connections))))
    ELSE Fulfilled(0)

\* Promise.all of the three checks; the catch block logs and rethrows
scanDevice(reachable, nethogs, netstat) ==
    LET portScan == scanPorts(reachable)
        bandwidthUsage == checkBandwidthUsage(nethogs)
        connections == checkConnections(netstat)
    IN IF "rejected" \in {portScan.settled, bandwidthUsage.settled, connections.settled}
       THEN Rejected
       ELSE Fulfilled([miningPortsDetected |-> calculatePortScore(portScan.value),
                       highBandwidthUsage |-> bandwidthUsage.value,
                       suspiciousConnections |-> connections.value])

ExecFailed == [ok |-> FALSE, stdout |-> << >>]

NethogsLine(value, unit) == [match |-> TRUE, value |-> value, unit |-> unit]
NethogsNoise == [match |-> FALSE, value |-> 0, unit |-> ""]

NethogsRuns ==
    {ExecFailed,
     [ok |-> TRUE, stdout |-> << >>],
     [ok |-> TRUE, stdout |-> <<NethogsLine(50 * Unit, "MB")>>],
     [ok |-> TRUE, stdout |-> <<NethogsLine(2 * Unit, "GB")>>],
     [ok |-> TRUE, stdout |-> <<NethogsLine(512 * Unit, "KB"), NethogsNoise>>]}

NetstatLine(remoteIP) == [blank |-> FALSE, remoteIP |-> remoteIP]
NetstatBlank == [blank |-> TRUE, remoteIP |-> ""]

NetstatRuns ==
    {ExecFailed,
     [ok |-> TRUE, stdout |-> << >>],
     [ok |-> TRUE, stdout |-> <<NetstatBlank>>],
     [ok |-> TRUE, stdout |-> <<NetstatLine("185.0.0.9")>>],
     [ok |-> TRUE, stdout |-> <<NetstatLine("8.8.8.8"), NetstatLine(""), NetstatBlank>>],
     [ok |-> TRUE, stdout |-> [i \in 1..10 |->
                                 NetstatLine(IF i = 1 THEN "185.0.0.9" ELSE "8.8.8.8")]]}

\* the scans a device cycle can see
ScanRuns ==
    {[reachable |-> {3333, 4444},
      nethogs |-> [ok |-> TRUE, stdout |-> <<NethogsLine(50 * Unit, "MB")>>],
      netstat |-> [ok |-> TRUE, stdout |-> [i \in 1..10 |->
                                 NetstatLine(IF i = 1 THEN "185.0.0.9" ELSE "8.8.8.8")]]],
     [reachable |-> MINING_PORTS,
      nethogs |-> [ok |-> TRUE, stdout |-> <<NethogsLine(2 * Unit, "GB")>>],
      netstat |-> [ok |-> TRUE, stdout |-> <<NetstatLine("185.0.0.9")>>]]}

\* results of NetworkScanner.scanDevice
ScanResults == {scanDevice(x.reachable, x.nethogs, x.netstat) : x \in ScanRuns}

\* the rfData events seen during one 5 second sampling window
RFWindows ==
    {<< >>,
     <<[powerConsumption |-> 0, heatSignature |-> 0]>>,
     <<[powerConsumption |-> (3 * Unit) \div 10, heatSignature |-> Unit \div 10],
       [powerConsumption |-> (5 * Unit) \div 10, heatSignature |-> (3 * Unit) \div 10]>>}

RECURSIVE SumSeq(_)
SumSeq(values) ==
    IF values = << >> THEN 0 ELSE Add(Head(values), SumSeq(Tail(values)))

\* reduce(+, 0) / length; 0 / 0 is NaN
calculateAverage(values) ==
    IF Len(values) = 0 \/ IsNaN(SumSeq(values)) THEN NaN
    ELSE SumSeq(values) \div Len(values)

analyze(readings) ==
    [powerConsumption |->
         calculateAverage([i \in 1..Len(readings) |-> readings[i].powerConsumption]),
     heatSignature |->
         calculateAverage([i \in 1..Len(readings) |-> readings[i].heatSignature])]

\* isolated calls of the collectors
LookupResponses ==
    GeoResponses \cup
    {[ok |-> TRUE, city |-> "", country_name |-> "Iran",
      latitude |-> 0, longitude |-> 464000]}

ProbeCalls ==
    {[pc |-> "call", fn |-> "scanDevice", reachable |-> o, nethogs |-> b,
      netstat |-> c, result |-> Rejected] :
        o \in SUBSET MINING_PORTS, b \in NethogsRuns, c \in NetstatRuns}
    \cup {[pc |-> "call", fn |-> "analyze", readings |-> w,
           result |-> [powerConsumption |-> Undefined, heatSignature |-> Undefined]] :
             w \in RFWindows}
    \cup {[pc |-> "call", fn |-> "lookupLocation", response |-> g,
           result |-> [city |-> "", country |-> "",
                       latitude |-> Undefined, longitude |-> Undefined]] :
             g \in LookupResponses}

ScanDeviceCall ==
    /\ probe.pc = "call"
    /\ probe.fn = "scanDevice"
    /\ probe' = [probe EXCEPT
                   !.pc = "returned",
                   !.result = scanDevice(probe.reachable, probe.nethogs, probe.netstat)]
    /\ UNCHANGED <<detectedMiners, cycle, now, started, reply, fuse, others>>

AnalyzeCall ==
    /\ probe.pc = "call"
    /\ probe.fn = "analyze"
    /\ probe' = [probe EXCEPT !.pc = "returned", !.result = analyze(probe.readings)]
    /\ UNCHANGED <<detectedMiners, cycle, now, started, reply, fuse, others>>

LookupLocationCall ==
    /\ probe.pc = "call"
    /\ probe.fn = "lookupLocation"
    /\ probe' = [probe EXCEPT !.pc = "returned", !.result = lookupLocation(probe.response)]
    /\ UNCHANGED <<detectedMiners, cycle, now, started, reply, fuse, others>>

---------------------------------------------------------------------------
(* GET /api/miners: the re-verification cycle *)

InitScores == {50 * Unit}

\* the detected_miners tables a behaviour starts from
InitTables ==
    {[d \in Devices |->
        [ipAddress |-> IF d = 1 THEN "10.0.0.1" ELSE "10.0.0.2",
         hostname |-> IF d = 1 THEN "rig-1" ELSE NullText,
         deviceType |-> IF d = 1 THEN "" ELSE "asic",
         confidenceScore |-> IF d = 1 THEN c ELSE 50 * Unit,
         detectionTime |-> 0,
         isActive |-> IF d = 1 THEN "true" ELSE a]] :
        c \in InitScores, a \in {"true", "false"}}

\* a row as db.select() returns it
SelectRow(d) ==
    [id |-> d,
     ipAddress |-> detectedMiners[d].ipAddress,
     hostname |-> detectedMiners[d].hostname,
     deviceType |-> detectedMiners[d].deviceType,
     confidenceScore |-> detectedMiners[d].confidenceScore,
     detectionTime |-> detectedMiners[d].detectionTime,
     isActive |-> detectedMiners[d].isActive]

DeltaThreshold == 5

IdleSlot == [pc |-> "idle"]

\* nothing sent yet
NoReply == [status |-> 0, body |-> [error |-> "", message |-> ""]]

suspectedMinersAll == Devices

\* rows selected by where(eq(isActive, "true"))
suspectedMiners == {d \in Devices : detectedMiners[d].isActive = "true"}

Settled == {"idle", "done", "rejected"}

InFlight ==
    {<<r, d>> \in Requests \X Devices : cycle[r][d].pc \notin Settled}

\* Math.abs(newScore - device.confidenceScore) > 5
DeltaGateNegated(newScore, device) ==
    LET delta == MathAbs(Add(newScore, Times(device.confidenceScore, 0 - 1)))
    IN ~(~IsNaN(delta) /\ delta <= DeltaThreshold * Unit)

DeltaGateInclusive(newScore, device) ==
    LET delta == MathAbs(Add(newScore, Times(device.confidenceScore, 0 - 1)))
    IN ~IsNaN(delta) /\ delta >= DeltaThreshold * Unit

DeltaGate(newScore, device) ==
    Gt(MathAbs(Add(newScore, Times(device.confidenceScore, 0 - 1))),
       DeltaThreshold * Unit)

\* text || 'Unknown'
OrUnknown(text) == IF text \in {NullText, ""} THEN "Unknown" ELSE text

ViewObjectRaw(device, geoData, newScore) ==
    [id |-> device.id,
     latitude |-> geoData.latitude,
     longitude |-> geoData.longitude,
     ip_address |-> device.ipAddress,
     confidence_score |-> newScore,
     owner |-> [name |-> device.hostname, type |-> device.deviceType],
     last_seen |-> device.detectionTime]

ViewObjectPreviousScore(device, geoData, newScore) ==
    [id |-> device.id,
     latitude |-> geoData.latitude,
     longitude |-> geoData.longitude,
     ip_address |-> device.ipAddress,
     confidence_score |-> device.confidenceScore,
     owner |-> [name |-> OrUnknown(device.hostname),
                type |-> OrUnknown(device.deviceType)],
     last_seen |-> device.detectionTime]

ViewObject(device, geoData, newScore) ==
    [id |-> device.id,
     latitude |-> geoData.latitude,
     longitude |-> geoData.longitude,
     ip_address |-> device.ipAddress,
     confidence_score |-> newScore,
     owner |-> [name |-> OrUnknown(device.hostname),
                type |-> OrUnknown(device.deviceType)],
     last_seen |-> device.detectionTime]

\* the handler up to the first await of every device cycle
GetMiners(r) ==
    /\ \A d \in Devices : cycle[r][d].pc = "idle"
    /\ reply[r] = NoReply
    /\ started + Cardinality(suspectedMiners) <= MaxCycles
    /\ Cardinality(InFlight) + Cardinality(suspectedMiners) <= MaxInFlight
    /\ started' = started + Cardinality(suspectedMiners)
    /\ now' = now + 1
    /\ cycle' = [cycle EXCEPT ![r] =
                   [d \in Devices |->
                      IF d \in suspectedMiners
                      THEN [pc |-> "geo", device |-> SelectRow(d)]
                      ELSE IdleSlot]]
    /\ UNCHANGED <<detectedMiners, reply, fuse, probe, others>>

\* the authorization header of a request: absent, a bearer token that
\* jwt.verify rejects, or one it accepts
Tokens == {"none", "invalid", "valid"}

verifyToken(token) ==
    IF token = "none" THEN NullObj
    ELSE IF token = "valid" THEN [isNull |-> FALSE]
    ELSE NullObj

\* GET /api/miners: the preHandler hook returns the user or null, which the
\* route does not look at, and the handler runs
GetApiMiners(r, token) ==
    /\ verifyToken(token) \in {NullObj, [isNull |-> FALSE]}
    /\ GetMiners(r)

\* await lookupLocation(device.ipAddress)
GeoLookup(r, d) ==
    /\ cycle[r][d].pc = "geo"
    /\ \E response \in GeoResponses :
          cycle' = [cycle EXCEPT ![r][d] =
                      [pc |-> "net",
                       device |-> cycle[r][d].device,
                       geoData |-> lookupLocation(response)]]
    /\ UNCHANGED <<detectedMiners, now, started, reply, fuse, probe, others>>

\* await scanner.scanDevice(device.ipAddress)
NetworkScan(r, d) ==
    /\ cycle[r][d].pc = "net"
    /\ \E result \in ScanResults :
          cycle' = [cycle EXCEPT ![r][d] =
                      IF result.settled = "rejected"
                      THEN [pc |-> "rejected"]
                      ELSE [pc |-> "rf",
                            device |-> cycle[r][d].device,
                            geoData |-> cycle[r][d].geoData,
                            networkData |-> result.value]]
    /\ UNCHANGED <<detectedMiners, now, started, reply, fuse, probe, others>>

RFAnalysisEarly(r, d, readings) ==
    /\ cycle[r][d].pc \in {"net", "rf"}
    /\ LET c == cycle[r][d]
           networkData == IF c.pc = "rf" THEN c.networkData
                          ELSE [miningPortsDetected |-> Undefined,
                                highBandwidthUsage |-> Undefined,
                                suspiciousConnections |-> Undefined]
           rfData == analyze(readings)
           newScore == calculateConfidenceScore(c.device, networkData, rfData, c.geoData)
       IN cycle' = [cycle EXCEPT ![r][d] =
                      IF DeltaGate(newScore, c.device)
                      THEN [pc |-> "update",
                            device |-> c.device,
                            geoData |-> c.geoData,
                            newScore |-> newScore,
                            set |-> [confidenceScore |-> newScore,
                                     detectionTime |-> now]]
                      ELSE [pc |-> "done",
                            device |-> c.device,
                            newScore |-> newScore,
                            wrote |-> FALSE,
                            view |-> ViewObject(c.device, c.geoData, newScore)]]
    /\ UNCHANGED <<detectedMiners, now, started, reply, fuse, probe, others>>

\* await rfAnalyzer.analyze(...) resolves with the average of the window;
\* the cycle then fuses and passes the delta gate
RFAnalysis(r, d, readings) ==
    /\ cycle[r][d].pc = "rf"
    /\ LET c == cycle[r][d]
           rfData == analyze(readings)
           newScore == calculateConfidenceScore(c.device, c.networkData, rfData, c.geoData)
       IN cycle' = [cycle EXCEPT ![r][d] =
                      IF DeltaGate(newScore, c.device)
                      THEN [pc |-> "update",
                            device |-> c.device,
                            geoData |-> c.geoData,
                            newScore |-> newScore,
                            set |-> [confidenceScore |-> newScore,
                                     detectionTime |-> now]]
                      ELSE [pc |-> "done",
                            device |-> c.device,
                            newScore |-> newScore,
                            wrote |-> FALSE,
                            view |-> ViewObject(c.device, c.geoData, newScore)]]
    /\ UNCHANGED <<detectedMiners, now, started, reply, fuse, probe, others>>

UpdateDoneScoreOnly(r, d) ==
    /\ cycle[r][d].pc = "update"
    /\ LET c == cycle[r][d]
       IN /\ detectedMiners' =
                 [detectedMiners EXCEPT
                    ![d].confidenceScore = c.set.confidenceScore]
          /\ cycle' = [cycle EXCEPT ![r][d] =
                         [pc |-> "done",
                          device |-> c.device,
                          newScore |-> c.newScore,
                          wrote |-> TRUE,
                          view |-> ViewObject(c.device, c.geoData, c.newScore)]]
    /\ UNCHANGED <<now, started, reply, fuse, probe, others>>

UpdateDoneIfUnchanged(r, d) ==
    /\ cycle[r][d].pc = "update"
    /\ detectedMiners[d].confidenceScore = cycle[r][d].device.confidenceScore
    /\ LET c == cycle[r][d]
       IN /\ detectedMiners' =
                 [detectedMiners EXCEPT
                    ![d].confidenceScore = c.set.confidenceScore,
                    ![d].detectionTime = c.set.detectionTime]
          /\ cycle' = [cycle EXCEPT ![r][d] =
                         [pc |-> "done",
                          device |-> c.device,
                          newScore |-> c.newScore,
                          wrote |-> TRUE,
                          view |-> ViewObject(c.device, c.geoData, c.newScore)]]
    /\ UNCHANGED <<now, started, reply, fuse, probe, others>>

\* db.update(detectedMiners).set(...).where(eq(id, device.id)) completes
UpdateDone(r, d) ==
    /\ cycle[r][d].pc = "update"
    /\ LET c == cycle[r][d]
       IN /\ detectedMiners' =
                 [detectedMiners EXCEPT
                    ![d].confidenceScore = c.set.confidenceScore,
                    ![d].detectionTime = c.set.detectionTime]
          /\ cycle' = [cycle EXCEPT ![r][d] =
                         [pc |-> "done",
                          device |-> c.device,
                          newScore |-> c.newScore,
                          wrote |-> TRUE,
                          view |-> ViewObject(c.device, c.geoData, c.newScore)]]
    /\ UNCHANGED <<now, started, reply, fuse, probe, others>>

\* the awaited db.update rejects: the device cycle rejects with it
UpdateFail(r, d) ==
    /\ cycle[r][d].pc = "update"
    /\ cycle' = [cycle EXCEPT ![r][d] = [pc |-> "rejected"]]
    /\ UNCHANGED <<detectedMiners, now, started, reply, fuse, probe, others>>

\* the array handed to reply.send: one view object per device cycle
verifiedMiners(r) ==
    {cycle[r][d].view : d \in {e \in Devices : cycle[r][e].pc = "done"}}

ReplyAllSettled(r) ==
    /\ reply[r] = NoReply
    /\ \E d \in Devices : cycle[r][d].pc \in {"done", "rejected"}
    /\ \A d \in Devices : cycle[r][d].pc \in Settled
    /\ cycle' = [cycle EXCEPT ![r] = [d \in Devices |-> IdleSlot]]
    /\ UNCHANGED <<detectedMiners, now, started, reply, fuse, probe, others>>

\* Promise.all resolved: reply.send(verifiedMiners)
Reply(r) ==
    /\ reply[r] = NoReply
    /\ \E d \in Devices : cycle[r][d].pc = "done"
    /\ \A d \in Devices : cycle[r][d].pc \in {"idle", "done"}
    /\ cycle' = [cycle EXCEPT ![r] = [d \in Devices |-> IdleSlot]]
    /\ UNCHANGED <<detectedMiners, now, started, reply, fuse, probe, others>>

\* reply.status(500).send({error, message}); the message text is abbreviated
InternalServerError ==
    [status |-> 500,
     body |-> [error |-> "Internal Server Error", message |-> "miners-error"]]

ReplyErrorCancelling(r) ==
    /\ reply[r] = NoReply
    /\ \E d \in Devices : cycle[r][d].pc = "rejected"
    /\ reply' = [reply EXCEPT ![r] = InternalServerError]
    /\ cycle' = [cycle EXCEPT ![r] =
                   [d \in Devices |->
                      IF cycle[r][d].pc \in Settled THEN cycle[r][d]
                      ELSE [pc |-> "rejected"]]]
    /\ UNCHANGED <<detectedMiners, now, started, fuse, probe, others>>

\* Promise.all rejected with the first rejection: the catch block replies 500
\* while the other device cycles of the request keep running
ReplyError(r) ==
    /\ reply[r] = NoReply
    /\ \E d \in Devices : cycle[r][d].pc = "rejected"
    /\ reply' = [reply EXCEPT ![r] = InternalServerError]
    /\ UNCHANGED <<detectedMiners, cycle, now, started, fuse, probe, others>>

\* the request is over once it has replied 500 and every device cycle settled
RequestEnd(r) ==
    /\ reply[r] # NoReply
    /\ \A d \in Devices : cycle[r][d].pc \in Settled
    /\ cycle' = [cycle EXCEPT ![r] = [d \in Devices |-> IdleSlot]]
    /\ reply' = [reply EXCEPT ![r] = NoReply]
    /\ UNCHANGED <<detectedMiners, now, started, fuse, probe, others>>

---------------------------------------------------------------------------
(* Specifications *)

InitCycle ==
    /\ detectedMiners \in InitTables
    /\ cycle = [r \in Requests |-> [d \in Devices |-> IdleSlot]]
    /\ now = 0
    /\ started = 0
    /\ reply = [r \in Requests |-> NoReply]

\* the components a specification does not exercise
OthersIdle(used) ==
    /\ "storage" \in used \/ storage = NoCall
    /\ "refreshLoop" \in used \/ refreshLoop = NoCall
    /\ "webSocket" \in used \/ webSocket = NoCall
    /\ "interactiveMap" \in used \/ interactiveMap = NoCall

Init ==
    /\ InitCycle
    /\ fuse = NoCall
    /\ probe = NoCall
    /\ OthersIdle({})

Next ==
    \/ \E r \in Requests, token \in Tokens : GetApiMiners(r, token)
    \/ \E r \in Requests, d \in Devices : GeoLookup(r, d)
    \/ \E r \in Requests, d \in Devices : NetworkScan(r, d)
    \/ \E r \in Requests, d \in Devices, readings \in RFWindows : RFAnalysis(r, d, readings)
    \/ \E r \in Requests, d \in Devices : UpdateDone(r, d)
    \/ \E r \in Requests, d \in Devices : UpdateFail(r, d)
    \/ \E r \in Requests : Reply(r)
    \/ \E r \in Requests : ReplyError(r)
    \/ \E r \in Requests : RequestEnd(r)

Spec == Init /\ [][Next]_vars

InitFuse ==
    /\ detectedMiners = CHOOSE t \in InitTables : t[2].isActive = "false"
    /\ cycle = [r \in Requests |-> [d \in Devices |-> IdleSlot]]
    /\ now = 0
    /\ started = 0
    /\ reply = [r \in Requests |-> NoReply]
    /\ fuse \in FuseCalls
    /\ probe = NoCall
    /\ OthersIdle({})

NextFuse == FuseCall

SpecFuse == InitFuse /\ [][NextFuse]_vars

InitCollect ==
    /\ detectedMiners = CHOOSE t \in InitTables : t[2].isActive = "false"
    /\ cycle = [r \in Requests |-> [d \in Devices |-> IdleSlot]]
    /\ now = 0
    /\ started = 0
    /\ reply = [r \in Requests |-> NoReply]
    /\ fuse = NoCall
    /\ probe \in ProbeCalls
    /\ OthersIdle({})

NextCollect ==
    \/ ScanDeviceCall
    \/ AnalyzeCall
    \/ LookupLocationCall

SpecCollect == InitCollect /\ [][NextCollect]_vars

---------------------------------------------------------------------------
(* Properties of the Fuser, checked under SpecFuse *)

InRange(v) == ~IsNaN(v) /\ v >= 0 /\ v <= 100 * Unit

Clamp(x) == IF x < 0 THEN 0 ELSE IF x > 100 * Unit THEN 100 * Unit ELSE x

\* 0.4*(20*ports + 15*bandwidth + 10*suspicious) + 0.3*(25*power + 15*heat)
\*   + 0.2*geo + 0.1*history, by plain arithmetic
WeightedSum(ports, bandwidth, suspicious, power, heat, geo, history) ==
    (4 * (20 * ports + 15 * bandwidth + 10 * suspicious)
     + 3 * (25 * power + 15 * heat)
     + 2 * geo
     + 1 * history) \div 10

Indicator(x) == ~IsNaN(x) /\ x >= 0 /\ x <= Unit

NetworkInDomain(n) ==
    /\ n # NullObj
    /\ n.miningPortsDetected \in {p * Unit : p \in 0..5}
    /\ Indicator(n.highBandwidthUsage)
    /\ Indicator(n.suspiciousConnections)

RFInDomain(r) ==
    /\ r # NullObj
    /\ Indicator(r.powerConsumption)
    /\ Indicator(r.heatSignature)

GeoSubScore(g) ==
    IF g # NullObj /\ "in_ilam" \in DOMAIN g /\ g.in_ilam THEN 100 * Unit ELSE 0

PriorInDomain(c) == c # Undefined /\ InRange(c)

\* C1: for every combination of prior score and collector results, also
\* out-of-range, missing and not-a-number readings, the score returned by
\* calculateConfidenceScore lies within [0, 100].
C1_ScoreWithinBounds ==
    fuse.pc = "returned" => InRange(fuse.result)

\* C2: with all three signal results present and inputs in the bounded domain
\* (ports 0..5, indicators in [0,1], geo in {0,100}, history 0..100) the score
\* is clamp(0.4*network + 0.3*rf + 0.2*geo + 0.1*history), and the weights
\* 0.4, 0.3, 0.2, 0.1 sum to 1.0.
C2_WeightedSumFormula ==
    /\ weights.network + weights.rf + weights.geo + weights.history = 10
    /\ (/\ fuse.pc = "returned"
        /\ NetworkInDomain(fuse.networkData)
        /\ RFInDomain(fuse.rfData)
        /\ fuse.geoData # NullObj
        /\ PriorInDomain(fuse.device.confidenceScore))
       => fuse.result =
            Clamp(WeightedSum(fuse.networkData.miningPortsDetected,
                              fuse.networkData.highBandwidthUsage,
                              fuse.networkData.suspiciousConnections,
                              fuse.rfData.powerConsumption,
                              fuse.rfData.heatSignature,
                              GeoSubScore(fuse.geoData),
                              fuse.device.confidenceScore))

\* C7: a collector result that is the null/failure sentinel contributes exactly
\* 0 for its term and the other weights are not renormalised; with network and
\* RF both failed, geo inside the jurisdiction and prior confidence 50 the
\* fused score is 0.2*100 + 0.1*50 = 25.
C7_FailedSignalContributesZero ==
    (/\ fuse.pc = "returned"
     /\ fuse.device.confidenceScore \in {c * Unit : c \in 1..100})
    =>
    /\ (fuse.networkData = NullObj /\ fuse.rfData = NullObj)
       => fuse.result =
            Clamp(WeightedSum(0, 0, 0, 0, 0, GeoSubScore(fuse.geoData),
                              fuse.device.confidenceScore))
    /\ (fuse.networkData = NullObj /\ RFInDomain(fuse.rfData))
       => fuse.result =
            Clamp(WeightedSum(0, 0, 0,
                              fuse.rfData.powerConsumption,
                              fuse.rfData.heatSignature,
                              GeoSubScore(fuse.geoData),
                              fuse.device.confidenceScore))
    /\ (NetworkInDomain(fuse.networkData) /\ fuse.rfData = NullObj)
       => fuse.result =
            Clamp(WeightedSum(fuse.networkData.miningPortsDetected,
                              fuse.networkData.highBandwidthUsage,
                              fuse.networkData.suspiciousConnections,
                              0, 0,
                              GeoSubScore(fuse.geoData),
                              fuse.device.confidenceScore))
    /\ (/\ fuse.networkData = NullObj
        /\ fuse.rfData = NullObj
        /\ GeoSubScore(fuse.geoData) = 100 * Unit
        /\ fuse.device.confidenceScore = 50 * Unit)
       => fuse.result = 25 * Unit

C7_Witness ==
    /\ fuse.pc = "returned"
    /\ fuse.networkData = NullObj
    /\ fuse.rfData = NullObj
    /\ GeoSubScore(fuse.geoData) = 100 * Unit
    /\ fuse.device.confidenceScore = 50 * Unit
    /\ fuse.result = 25 * Unit

\* C9: the history sub-score is the prior confidence score whenever a prior is
\* present, for every prior in 0..100 including 0, and the default 50 only when
\* the prior is absent.  With no signal at all the score is 0.1 * history.
C9_HistoryIsPriorWhenPresent ==
    (/\ fuse.pc = "returned"
     /\ fuse.networkData = NullObj
     /\ fuse.rfData = NullObj
     /\ fuse.geoData = NullObj)
    =>
    /\ PriorInDomain(fuse.device.confidenceScore)
       => 10 * fuse.result = fuse.device.confidenceScore
    /\ fuse.device.confidenceScore = Undefined
       => 10 * fuse.result = 50 * Unit

---------------------------------------------------------------------------
(* Properties of the re-verification cycle, checked under Spec *)

\* a numeric score without a fractional part
IsInteger(x) == ~IsNaN(x) => x % Unit = 0

\* newScore differs from the previous score by more than the threshold
ExceedsThreshold(newScore, previous) ==
    /\ ~IsNaN(newScore)
    /\ \/ newScore - previous > 5 * Unit
       \/ previous - newScore > 5 * Unit

\* C3: the score handed to the delta gate, to storage and to the view object
\* is always an integer: the weighted sum is rounded before it is compared,
\* persisted or returned.
C3_ScoreIsInteger ==
    /\ \A r \in Requests, d \in Devices :
          cycle[r][d].pc \in {"update", "done"}
             => IsInteger(cycle[r][d].newScore)
    /\ \A d \in Devices : IsInteger(detectedMiners[d].confidenceScore)

\* C4: in a device cycle a storage update is issued if and only if
\* abs(newScore - previousScore) > 5; a delta of 5 or less causes no write.
C4_DeltaGate ==
    \A r \in Requests, d \in Devices :
       LET c == cycle[r][d]
       IN /\ (c.pc = "update" \/ (c.pc = "done" /\ c.wrote))
                => ExceedsThreshold(c.newScore, c.device.confidenceScore)
          /\ (c.pc = "done" /\ ~c.wrote)
                => ~ExceedsThreshold(c.newScore, c.device.confidenceScore)

\* a cycle that ended without a write on a delta of exactly 5
C4_Witness ==
    \E r \in Requests, d \in Devices :
       /\ cycle[r][d].pc = "done"
       /\ ~cycle[r][d].wrote
       /\ ~IsNaN(cycle[r][d].newScore)
       /\ cycle[r][d].newScore - cycle[r][d].device.confidenceScore = 5 * Unit

\* C5: when the delta gate passes, the update of that device stores exactly
\* the newly fused score and a timestamp read from the clock when the update
\* was issued.
C5_UpdateStoresNewScore ==
    [][\A r \in Requests, d \in Devices :
          /\ (cycle[r][d].pc = "rf" /\ cycle'[r][d].pc = "update")
                => cycle'[r][d].set.detectionTime = now
          /\ (cycle[r][d].pc = "update" /\ cycle'[r][d].pc = "done")
                => /\ detectedMiners'[d].confidenceScore = cycle[r][d].newScore
                   /\ detectedMiners'[d].detectionTime = cycle[r][d].set.detectionTime]_vars

C5_Witness ==
    \E r \in Requests, d \in Devices :
       /\ cycle[r][d].pc = "done"
       /\ cycle[r][d].wrote
       /\ detectedMiners[d].confidenceScore = cycle[r][d].newScore
       /\ detectedMiners[d].detectionTime = now
       /\ detectedMiners[d].detectionTime > cycle[r][d].device.detectionTime

\* C6: after any sequence of sequential or overlapping cycles every stored
\* confidence score is within [0, 100].
C6_StoredScoreWithinBounds ==
    \A d \in Devices : InRange(detectedMiners[d].confidenceScore)

\* two overlapping cycles have both written the same device
C6_Witness ==
    \E d \in Devices :
       /\ \A r \in Requests : cycle[r][d].pc = "done" /\ cycle[r][d].wrote
       /\ \A r \in Requests :
             cycle[r][d].device.detectionTime = 0
       /\ InRange(detectedMiners[d].confidenceScore)

InsideJurisdiction(geoData) ==
    /\ geoData # NullObj
    /\ geoData.latitude # Null
    /\ geoData.longitude # Null
    /\ isInIlamBounds(geoData.latitude, geoData.longitude)

C10Network ==
    [miningPortsDetected |-> 2 * Unit, highBandwidthUsage |-> Unit \div 2,
     suspiciousConnections |-> Unit \div 10]

C10Window ==
    <<[powerConsumption |-> (3 * Unit) \div 10, heatSignature |-> Unit \div 10],
      [powerConsumption |-> (5 * Unit) \div 10, heatSignature |-> (3 * Unit) \div 10]>>

\* C8: in the cycle a device whose geo lookup resolved inside the jurisdiction
\* bounds gets a geo sub-score of 100 (20 points after weighting), one resolved
\* outside or not resolved gets 0.
C8_GeoTermFollowsLookup ==
    [][\A r \in Requests, d \in Devices, readings \in RFWindows :
          (RFAnalysis(r, d, readings) /\ ~IsNaN(cycle'[r][d].newScore))
          => cycle'[r][d].newScore =
               Clamp(WeightedSum(cycle[r][d].networkData.miningPortsDetected,
                                 cycle[r][d].networkData.highBandwidthUsage,
                                 cycle[r][d].networkData.suspiciousConnections,
                                 analyze(readings).powerConsumption,
                                 analyze(readings).heatSignature,
                                 IF InsideJurisdiction(cycle[r][d].geoData)
                                 THEN 100 * Unit ELSE 0,
                                 cycle[r][d].device.confidenceScore))]_vars

\* C10: prior confidence 50, NetworkResult {2, 0.5, 0.1}, RFResult {0.4, 0.2}
\* and a GeoResult inside the jurisdiction give the score 48 and no storage
\* write.
C10_EndToEndScenario ==
    [][\A r \in Requests, d \in Devices :
          (/\ RFAnalysis(r, d, C10Window)
           /\ cycle[r][d].device.confidenceScore = 50 * Unit
           /\ cycle[r][d].networkData = C10Network
           /\ InsideJurisdiction(cycle[r][d].geoData))
          => /\ cycle'[r][d].newScore = 48 * Unit
             /\ cycle'[r][d].pc = "done"
             /\ ~cycle'[r][d].wrote]_vars

---------------------------------------------------------------------------
(* Properties of the collectors *)

\* the all-zero RF result
RFSentinel == [powerConsumption |-> 0, heatSignature |-> 0]

\* the all-zero network result
NetworkSentinel ==
    [miningPortsDetected |-> 0, highBandwidthUsage |-> 0, suspiciousConnections |-> 0]

\* the all-null geo result
GeoSentinel ==
    [city |-> NullText, country |-> NullText, latitude |-> Null, longitude |-> Null]

\* C11: a failure of a single collector for a device does not abort its
\* cycle: the Fuser runs with the sentinel of the failed collector and the
\* results of the other two, and the device cycle goes on to the gate instead
\* of rejecting.  Checked under Spec for an RF window without readings and for
\* a failed geo lookup.
C11_CollectorFailureIsAbsorbed ==
    [][\A r \in Requests, d \in Devices :
          /\ RFAnalysis(r, d, << >>)
                => /\ cycle'[r][d].pc \in {"update", "done"}
                   /\ cycle'[r][d].newScore =
                         calculateConfidenceScore(cycle[r][d].device,
                                                  cycle[r][d].networkData,
                                                  RFSentinel,
                                                  cycle[r][d].geoData)
          /\ (cycle[r][d].pc = "geo" /\ cycle'[r][d].pc # "geo")
                => /\ cycle'[r][d].pc = "net"
                   /\ cycle'[r][d].geoData \in
                         {lookupLocation(g) : g \in GeoResponses}]_vars

\* C12: a collector failure is a value: lookupLocation answers the all-null
\* result when the lookup fails, and scanDevice is fulfilled with {0, 0, 0}
\* when no port probe connects and both external tools fail.  Checked under
\* SpecCollect.
C12_FailureIsAValue ==
    probe.pc = "returned" =>
       /\ (probe.fn = "lookupLocation" /\ ~probe.response.ok)
             => probe.result = GeoSentinel
       /\ (probe.fn = "scanDevice" /\ probe.reachable \cap MINING_PORTS = {}
              /\ ~probe.nethogs.ok /\ ~probe.netstat.ok)
             => /\ probe.result.settled = "fulfilled"
                /\ probe.result.value = NetworkSentinel

\* a scan in which every probe and both tools failed has returned
C12_Witness ==
    /\ probe.pc = "returned"
    /\ probe.fn = "scanDevice"
    /\ probe.reachable = {}
    /\ ~probe.nethogs.ok
    /\ ~probe.netstat.ok
    /\ probe.result.settled = "fulfilled"
    /\ probe.result.value = NetworkSentinel

\* C13: analyze returns {powerConsumption: 0, heatSignature: 0} when no RF
\* reading arrived during the sampling window.  Checked under SpecCollect.
C13_EmptyWindowGivesSentinel ==
    (probe.pc = "returned" /\ probe.fn = "analyze" /\ probe.readings = << >>)
       => probe.result = RFSentinel

\* C14: every result of scanDevice has miningPortsDetected in 0..5, equal to
\* the number of open mining ports capped at 5, and highBandwidthUsage and
\* suspiciousConnections in [0, 1], whatever ports are open and whatever the
\* external tools print.  Checked under SpecCollect.
C14_NetworkResultInRange ==
    (probe.pc = "returned" /\ probe.fn = "scanDevice") =>
       /\ probe.result.settled = "fulfilled"
       /\ LET n == probe.result.value
              open == Cardinality(probe.reachable \cap MINING_PORTS)
          IN /\ n.miningPortsDetected = (IF open > 5 THEN 5 ELSE open) * Unit
             /\ Indicator(n.highBandwidthUsage)
             /\ Indicator(n.suspiciousConnections)

---------------------------------------------------------------------------
(* Failure of the storage update, ordering, view object, frame, selection
   and authentication, checked under Spec *)

\* C15: when the storage update of a device fails, its cycle rejects without
\* writing and without issuing the update again, and the only answer the
\* request can get is status 500 with a body {error, message}; it is never
\* answered with the array of view objects.
C15_UpdateFailureGives500 ==
    [][\A r \in Requests :
          /\ \A d \in Devices :
                /\ (cycle[r][d].pc = "update" /\ cycle'[r][d].pc = "rejected")
                      => detectedMiners' = detectedMiners
                /\ cycle[r][d].pc = "rejected"
                      => cycle'[r][d].pc \in {"rejected", "idle"}
          /\ ((\E d \in Devices : cycle[r][d].pc = "rejected") /\ reply'[r] # reply[r])
                => \/ reply'[r] = NoReply
                   \/ /\ reply'[r].status = 500
                      /\ DOMAIN reply'[r].body = {"error", "message"}
          /\ ((\E d \in Devices : cycle[r][d].pc = "rejected")
                 /\ \A d \in Devices : cycle'[r][d].pc = "idle")
                => reply[r].status = 500]_vars

\* the update of a device failed and the request was answered with 500
C15_Witness ==
    \E r \in Requests :
       /\ \E d \in Devices : cycle[r][d].pc = "rejected"
       /\ reply[r].status = 500
       /\ reply[r].body.error = "Internal Server Error"

\* C16: a device's score is fused only in the step that ends its RF analysis,
\* when the geo result and the network result of the same device are already
\* there; the collectors of one device run in the order geo, network, RF,
\* and the cycles of different devices are not ordered.
C16_FuseAfterAllCollectors ==
    [][\A r \in Requests, d \in Devices :
          /\ (cycle'[r][d].pc \in {"update", "done"}
                 /\ cycle[r][d].pc \notin {"update", "done"})
                => /\ cycle[r][d].pc = "rf"
                   /\ cycle[r][d].device.id = d
                   /\ cycle[r][d].geoData \in {lookupLocation(g) : g \in GeoResponses}
                   /\ Fulfilled(cycle[r][d].networkData) \in ScanResults
                   /\ \E readings \in RFWindows :
                         cycle'[r][d].newScore =
                            calculateConfidenceScore(cycle[r][d].device,
                                                     cycle[r][d].networkData,
                                                     analyze(readings),
                                                     cycle[r][d].geoData)
          /\ (cycle'[r][d].pc = "net" /\ cycle[r][d].pc # "net")
                => cycle[r][d].pc = "geo"
          /\ (cycle'[r][d].pc = "rf" /\ cycle[r][d].pc # "rf")
                => cycle[r][d].pc = "net"]_vars

\* one device of a request is fused and done while the other one still waits
\* for its geo lookup
C16_Witness ==
    \E r \in Requests, d \in Devices, e \in Devices :
       /\ d # e
       /\ cycle[r][d].pc = "done"
       /\ cycle[r][e].pc = "geo"

\* absent text: SQL NULL or the empty string
Absent(text) == text \in {NullText, ""}

\* C17: the view object of a device carries the device's id and ip address,
\* the latitude and longitude of the geo result of this cycle, the hostname
\* as owner.name and the device type as owner.type, each replaced by
\* 'Unknown' when absent.
C17_ViewObjectFields ==
    [][\A r \in Requests, d \in Devices :
          (cycle[r][d].pc \in {"rf", "update"} /\ cycle'[r][d].pc = "done")
          => LET v == cycle'[r][d].view
                 row == detectedMiners[d]
             IN /\ v.id = d
                /\ v.ip_address = row.ipAddress
                /\ v.latitude = cycle[r][d].geoData.latitude
                /\ v.longitude = cycle[r][d].geoData.longitude
                /\ v.owner.name = (IF Absent(row.hostname) THEN "Unknown"
                                   ELSE row.hostname)
                /\ v.owner.type = (IF Absent(row.deviceType) THEN "Unknown"
                                   ELSE row.deviceType)]_vars

\* a view object of a device without hostname, located by the geo lookup
C17_Witness ==
    \E r \in Requests, d \in Devices :
       /\ cycle[r][d].pc = "done"
       /\ Absent(detectedMiners[d].hostname)
       /\ cycle[r][d].view.owner.name = "Unknown"
       /\ cycle[r][d].view.owner.type = "asic"
       /\ cycle[r][d].view.latitude = 336000

\* the stored fields other than the confidence score
FrameFields == {"ipAddress", "hostname", "deviceType", "detectionTime", "isActive"}

\* C18: a cycle changes no stored field of a device other than its
\* confidence score and a last-update timestamp: the detection time and every
\* other column keep their values.
C18_DetectionTimeKept ==
    [][\A d \in Devices, f \in FrameFields :
          detectedMiners'[d][f] = detectedMiners[d][f]]_vars

\* C19: a device whose active flag is cleared is never given a device cycle
\* and never written, and the array of a response holds exactly one view
\* object for each active device.
C19_OnlyActiveDevices ==
    [][/\ \A d \in Devices :
             detectedMiners[d].isActive # "true"
                => /\ detectedMiners'[d] = detectedMiners[d]
                   /\ \A r \in Requests : cycle'[r][d].pc = "idle"
       /\ \A r \in Requests :
             Reply(r) => /\ {v.id : v \in verifiedMiners(r)} = suspectedMiners
                         /\ Cardinality(verifiedMiners(r)) = Cardinality(suspectedMiners)]_vars

\* a request is ready to reply with the inactive device left out
C19_Witness ==
    \E r \in Requests, d \in Devices, e \in Devices :
       /\ detectedMiners[d].isActive = "true"
       /\ detectedMiners[e].isActive # "true"
       /\ cycle[r][d].pc = "done"
       /\ cycle[r][e].pc = "idle"
       /\ {v.id : v \in verifiedMiners(r)} = {d}

\* C20: a request without a bearer token, or with one that does not verify,
\* starts no device cycle and changes nothing in the store.
C20_NoCycleWithoutToken ==
    [][\A r \in Requests, token \in {"none", "invalid"} :
          GetApiMiners(r, token) => UNCHANGED <<cycle, detectedMiners>>]_vars

---------------------------------------------------------------------------
(* StorageManager: devices, scan results, alerts and cleanupOldData *)

MaxStoreClock == 3   \* days the storage clock runs
MaxInserts == 2      \* rows inserted by saveScanResult and createAlert

RetentionDays == {0, 1, 2}

\* the last_seen of a device id without a row
NoRow == 0 - 1

StoreJobIdle == [pc |-> "idle", cutoffDate |-> 0]

\* the stores a behaviour starts from: both devices seen on day 0, an old scan
\* result of device 1, and alerts that are resolved or not
InitStores ==
    {[clock |-> 0,
      inserts |-> 0,
      devices |-> [d \in Devices |-> 0],
      scanResults |-> {[device_id |-> 1, timestamp |-> 0]},
      alerts |-> a,
      job |-> StoreJobIdle] :
        a \in SUBSET {[device_id |-> 1, timestamp |-> 0, resolved |-> TRUE],
                      [device_id |-> 2, timestamp |-> 0, resolved |-> FALSE]}}

\* the rows of the dependent tables that reference a device
References(st, d) ==
    {row \in st.scanResults : row.device_id = d}
    \cup {[device_id |-> row.device_id, timestamp |-> row.timestamp] :
             row \in {a \in st.alerts : a.device_id = d}}

ForeignKeyIgnored(st, deleted) == FALSE

\* device_id references devices.id without ON DELETE: deleting a referenced
\* device is an error
ForeignKeyViolated(st, deleted) == \E d \in deleted : References(st, d) # {}

StoreTick ==
    /\ storage.clock < MaxStoreClock
    /\ storage' = [storage EXCEPT !.clock = storage.clock + 1]
    /\ UNCHANGED <<detectedMiners, cycle, now, started, reply, fuse, probe,
                   refreshLoop, webSocket, interactiveMap>>

\* insert ... onConflict('ip').merge() with last_seen: new Date()
upsertDevice(st, d) == [st EXCEPT !.devices[d] = st.clock]

\* insert the scan result, then update the device's last_seen
saveScanResult(d) ==
    /\ storage.inserts < MaxInserts
    /\ storage.devices[d] # NoRow
    /\ storage' = upsertDevice([storage EXCEPT
                                  !.inserts = storage.inserts + 1,
                                  !.scanResults = storage.scanResults \cup
                                     {[device_id |-> d, timestamp |-> storage.clock]}],
                               d)
    /\ UNCHANGED <<detectedMiners, cycle, now, started, reply, fuse, probe,
                   refreshLoop, webSocket, interactiveMap>>

createAlert(d) ==
    /\ storage.inserts < MaxInserts
    /\ storage.devices[d] # NoRow
    /\ storage' = [storage EXCEPT
                     !.inserts = storage.inserts + 1,
                     !.alerts = storage.alerts \cup
                        {[device_id |-> d, timestamp |-> storage.clock,
                          resolved |-> FALSE]}]
    /\ UNCHANGED <<detectedMiners, cycle, now, started, reply, fuse, probe,
                   refreshLoop, webSocket, interactiveMap>>

\* cutoffDate = today - retentionDays
cleanupOldData(retentionDays) ==
    /\ storage.job.pc \in {"idle", "done", "failed"}
    /\ storage' = [storage EXCEPT
                     !.job = [pc |-> "scanResults",
                              cutoffDate |-> storage.clock - retentionDays]]
    /\ UNCHANGED <<detectedMiners, cycle, now, started, reply, fuse, probe,
                   refreshLoop, webSocket, interactiveMap>>

\* delete from scan_results where timestamp < cutoffDate
DeleteScanResults ==
    /\ storage.job.pc = "scanResults"
    /\ storage' = [storage EXCEPT
                     !.scanResults = {row \in storage.scanResults :
                                        ~(row.timestamp < storage.job.cutoffDate)},
                     !.job.pc = "alerts"]
    /\ UNCHANGED <<detectedMiners, cycle, now, started, reply, fuse, probe,
                   refreshLoop, webSocket, interactiveMap>>

\* delete from alerts where timestamp < cutoffDate and resolved
DeleteAlerts ==
    /\ storage.job.pc = "alerts"
    /\ storage' = [storage EXCEPT
                     !.alerts = {row \in storage.alerts :
                                   ~(row.timestamp < storage.job.cutoffDate
                                     /\ row.resolved)},
                     !.job.pc = "devices"]
    /\ UNCHANGED <<detectedMiners, cycle, now, started, reply, fuse, probe,
                   refreshLoop, webSocket, interactiveMap>>

\* delete from devices where last_seen < cutoffDate: one statement, which
\* fails as a whole on a foreign key violation and makes the job throw
DeleteDevices ==
    /\ storage.job.pc = "devices"
    /\ LET deleted == {d \in Devices : /\ storage.devices[d] # NoRow
                                       /\ storage.devices[d] < storage.job.cutoffDate}
       IN storage' =
            IF ForeignKeyViolated(storage, deleted)
            THEN [storage EXCEPT !.job.pc = "failed"]
            ELSE [storage EXCEPT
                    !.devices = [d \in Devices |->
                                   IF d \in deleted THEN NoRow ELSE storage.devices[d]],
                    !.job.pc = "done"]
    /\ UNCHANGED <<detectedMiners, cycle, now, started, reply, fuse, probe,
                   refreshLoop, webSocket, interactiveMap>>

\* the re-verification cycle at rest
CycleIdle ==
    /\ detectedMiners = CHOOSE t \in InitTables : t[2].isActive = "false"
    /\ cycle = [r \in Requests |-> [d \in Devices |-> IdleSlot]]
    /\ now = 0
    /\ started = 0
    /\ reply = [r \in Requests |-> NoReply]
    /\ fuse = NoCall
    /\ probe = NoCall

InitStore ==
    /\ CycleIdle
    /\ storage \in InitStores
    /\ OthersIdle({"storage"})

NextStore ==
    \/ StoreTick
    \/ \E d \in Devices : saveScanResult(d)
    \/ \E d \in Devices : createAlert(d)
    \/ \E retentionDays \in RetentionDays : cleanupOldData(retentionDays)
    \/ DeleteScanResults
    \/ DeleteAlerts
    \/ DeleteDevices

SpecStore == InitStore /\ [][NextStore]_vars

---------------------------------------------------------------------------
(* Overlapping and failing cycles, checked under Spec *)

\* C22: overlapping cycles of the same device are not serialized: an update
\* that a cycle has issued can always complete, whatever another cycle has
\* stored since the device was read, so both cycles can pass the gate against
\* the same previous score and both can write.
C22_UpdatesNotSerialized ==
    \A r \in Requests, d \in Devices :
       cycle[r][d].pc = "update" => ENABLED UpdateDone(r, d)

\* two cycles read the same row of a device and both wrote; the stored score
\* and timestamp are those of the cycle that issued its update before the
\* other request arrived, and the score of the later cycle is lost
C22_Witness ==
    \E d \in Devices, r1 \in Requests, r2 \in Requests :
       /\ r1 # r2
       /\ cycle[r1][d].pc = "done" /\ cycle[r1][d].wrote
       /\ cycle[r2][d].pc = "done" /\ cycle[r2][d].wrote
       /\ cycle[r1][d].device.detectionTime = 0
       /\ cycle[r2][d].device.detectionTime = 0
       /\ cycle[r1][d].device.confidenceScore = cycle[r2][d].device.confidenceScore
       /\ now = 2
       /\ detectedMiners[d].detectionTime = 1
       /\ detectedMiners[d].confidenceScore = cycle[r1][d].newScore
       /\ cycle[r2][d].newScore # cycle[r1][d].newScore

---------------------------------------------------------------------------
(* Jurisdiction classifiers and BackupManager.cleanupOldBackups, as isolated
   calls *)

\* ILAM_BOUNDS of the map component
MapIlamBounds ==
    [north |-> 343353, south |-> 324084, east |-> 480936, west |-> 452401]

\* a >= b and a <= b on numbers that may be null or NaN
Gte(a, b) == ~IsNaN(a) /\ ~IsNaN(b) /\ Num(a) >= Num(b)
Lte(a, b) == ~IsNaN(a) /\ ~IsNaN(b) /\ Num(a) <= Num(b)

validateLocation(location) ==
    /\ Gte(location.latitude, MapIlamBounds.south)
    /\ Lte(location.latitude, MapIlamBounds.north)
    /\ Gte(location.longitude, MapIlamBounds.west)
    /\ Lte(location.longitude, MapIlamBounds.east)

\* where latitude <= north AND latitude >= south AND longitude <= east AND
\* longitude >= west; a comparison with NULL selects nothing
getMinersInArea(bounds, rows) ==
    {row \in rows :
        /\ row.latitude # Null /\ row.longitude # Null
        /\ row.latitude <= bounds.north
        /\ row.latitude >= bounds.south
        /\ row.longitude <= bounds.east
        /\ row.longitude >= bounds.west}

\* the bounding boxes the program uses for the province
JurisdictionBoxes == {ILAM_BOUNDS, MapIlamBounds}

ProbeLatitudes ==
    {ILAM_BOUNDS.south, MapIlamBounds.south, 336000, MapIlamBounds.north,
     ILAM_BOUNDS.north, ILAM_BOUNDS.south - 1, ILAM_BOUNDS.north + 1}

ProbeLongitudes ==
    {MapIlamBounds.west, ILAM_BOUNDS.west, 464000, MapIlamBounds.east,
     ILAM_BOUNDS.east, MapIlamBounds.west - 1, ILAM_BOUNDS.east + 1}

ClassifyCalls ==
    {[pc |-> "call", fn |-> "classify",
      point |-> [latitude |-> lat, longitude |-> lon], bounds |-> b,
      result |-> [isInIlamBounds |-> FALSE, validateLocation |-> FALSE,
                  getMinersInArea |-> FALSE]] :
        lat \in ProbeLatitudes, lon \in ProbeLongitudes, b \in JurisdictionBoxes}

ClassifyCall ==
    /\ probe.pc = "call"
    /\ probe.fn = "classify"
    /\ probe' = [probe EXCEPT
                   !.pc = "returned",
                   !.result =
                      [isInIlamBounds |->
                          isInIlamBounds(probe.point.latitude, probe.point.longitude),
                       validateLocation |-> validateLocation(probe.point),
                       getMinersInArea |->
                          probe.point \in getMinersInArea(probe.bounds, {probe.point})]]
    /\ UNCHANGED <<detectedMiners, cycle, now, started, reply, fuse, others>>

MaxBackupFiles == 3   \* backup files in the directory
MaxBackupAge == 3     \* age of a backup file in days

\* backups sorted by time, newest first: (b.time - a.time)
RECURSIVE SortBackups(_)
SortBackups(files) ==
    IF files = {} THEN << >>
    ELSE LET newest == CHOOSE f \in files :
                          \A g \in files :
                             \/ f.time > g.time
                             \/ (f.time = g.time /\ f.name <= g.name)
         IN <<newest>> \o SortBackups(files \ {newest})

IsOldBackup(cutoffTime, backup) == backup.time < cutoffTime

RECURSIVE FilterOld(_, _)
FilterOld(cutoffTime, backups) ==
    IF backups = << >> THEN << >>
    ELSE (IF IsOldBackup(cutoffTime, Head(backups)) THEN <<Head(backups)>> ELSE << >>)
         \o FilterOld(cutoffTime, Tail(backups))

\* fs.unlinkSync of each scheduled file in turn; unlinking a file that is
\* already gone throws and ends the loop
RECURSIVE UnlinkAll(_, _)
UnlinkAll(present, scheduled) ==
    IF scheduled = << >> THEN [remaining |-> present, threw |-> FALSE]
    ELSE IF Head(scheduled).name \notin present
         THEN [remaining |-> present, threw |-> TRUE]
         ELSE UnlinkAll(present \ {Head(scheduled).name}, Tail(scheduled))

cleanupOldBackups(files, today, retentionDays, maxBackups) ==
    LET backups == SortBackups(files)
        cutoffTime == today - retentionDays
        oldBackups == FilterOld(cutoffTime, backups)
        backupsToDelete ==
            (IF Len(backups) > 1 THEN oldBackups ELSE << >>)
            \o (IF Len(backups) > maxBackups
                THEN SubSeq(backups, maxBackups + 1, Len(backups))
                ELSE << >>)
        done == UnlinkAll({f.name : f \in files}, backupsToDelete)
    IN [scheduled |-> [i \in 1..Len(backupsToDelete) |-> backupsToDelete[i].name],
        remaining |-> done.remaining,
        threw |-> done.threw]

\* the directories a cleanup can find: up to MaxBackupFiles backup files
BackupDirs ==
    UNION {[1..n -> 0..MaxBackupAge] : n \in 0..MaxBackupFiles}

BackupFiles(ages) ==
    {[name |-> i, time |-> MaxBackupAge - ages[i]] : i \in DOMAIN ages}

CleanupCalls ==
    {[pc |-> "call", fn |-> "cleanupOldBackups", files |-> BackupFiles(ages),
      retentionDays |-> rd, maxBackups |-> mb,
      result |-> [scheduled |-> << >>, remaining |-> {}, threw |-> FALSE]] :
        ages \in BackupDirs, rd \in 0..MaxBackupAge, mb \in 0..MaxBackupFiles}

CleanupOldBackupsCall ==
    /\ probe.pc = "call"
    /\ probe.fn = "cleanupOldBackups"
    /\ probe' = [probe EXCEPT
                   !.pc = "returned",
                   !.result = cleanupOldBackups(probe.files, MaxBackupAge,
                                                probe.retentionDays, probe.maxBackups)]
    /\ UNCHANGED <<detectedMiners, cycle, now, started, reply, fuse, others>>

InitUtil ==
    /\ detectedMiners = CHOOSE t \in InitTables : t[2].isActive = "false"
    /\ cycle = [r \in Requests |-> [d \in Devices |-> IdleSlot]]
    /\ now = 0
    /\ started = 0
    /\ reply = [r \in Requests |-> NoReply]
    /\ fuse = NoCall
    /\ probe \in ClassifyCalls \cup CleanupCalls
    /\ OthersIdle({})

NextUtil ==
    \/ ClassifyCall
    \/ CleanupOldBackupsCall

SpecUtil == InitUtil /\ [][NextUtil]_vars

\* a point on an edge of a box, its other coordinate within the box
OnEdge(point, box) ==
    \/ /\ point.latitude \in {box.south, box.north}
       /\ point.longitude >= box.west /\ point.longitude <= box.east
    \/ /\ point.longitude \in {box.west, box.east}
       /\ point.latitude >= box.south /\ point.latitude <= box.north

\* C23: a point exactly on an edge of the jurisdiction bounding box is
\* classified inside by isInIlamBounds, by validateLocation and by
\* getMinersInArea with that box alike.  Checked under SpecUtil.
C23_EdgesInclusiveAlike ==
    (probe.pc = "returned" /\ probe.fn = "classify"
       /\ OnEdge(probe.point, probe.bounds))
       => /\ probe.result.isInIlamBounds
          /\ probe.result.validateLocation
          /\ probe.result.getMinersInArea

\* C24: when at least one backup file exists before cleanupOldBackups, at
\* least one exists after it, and no file is scheduled for deletion twice, for
\* all file ages, retentionDays and maxBackups.  Checked under SpecUtil.
C24_KeepsOneBackup ==
    (probe.pc = "returned" /\ probe.fn = "cleanupOldBackups")
       => /\ probe.files # {} => probe.result.remaining # {}
          /\ \A i, j \in 1..Len(probe.result.scheduled) :
                i # j => probe.result.scheduled[i] # probe.result.scheduled[j]

---------------------------------------------------------------------------
(* Successive non-overlapping cycles of one device with constant signals *)

MaxRefreshCycles == 4

\* signal results that stay the same from cycle to cycle
RefreshNetworkData ==
    {NullObj} \cup
    [miningPortsDetected : {0, 2 * Unit, 5 * Unit},
     highBandwidthUsage : {0, Unit \div 2, Unit},
     suspiciousConnections : {0, Unit, NaN}]

RefreshRFData ==
    {NullObj} \cup [powerConsumption : {0, (4 * Unit) \div 10, Unit},
                    heatSignature : {0, Unit}]

\* stored confidence scores before the first cycle
RefreshPriors == {0, Unit} \cup {10 * k * Unit : k \in 1..10}

InitRefreshLoops ==
    {[device |-> [confidenceScore |-> c], networkData |-> n, rfData |-> x,
      geoData |-> g, wrote |-> << >>] :
        c \in RefreshPriors, n \in RefreshNetworkData, x \in RefreshRFData,
        g \in FuseGeoData}

\* one whole cycle of the device: select the row, collect the (constant)
\* signals, fuse, pass the delta gate, update when it is open
RefreshCycle ==
    /\ refreshLoop # NoCall
    /\ Len(refreshLoop.wrote) < MaxRefreshCycles
    /\ LET device == refreshLoop.device
           newScore == calculateConfidenceScore(device, refreshLoop.networkData,
                                                refreshLoop.rfData, refreshLoop.geoData)
           open == DeltaGate(newScore, device)
       IN refreshLoop' =
             [refreshLoop EXCEPT
                !.device = IF open THEN [confidenceScore |-> newScore] ELSE device,
                !.wrote = Append(refreshLoop.wrote, open)]
    /\ UNCHANGED <<detectedMiners, cycle, now, started, reply, fuse, probe,
                   storage, webSocket, interactiveMap>>

InitRefresh ==
    /\ CycleIdle
    /\ refreshLoop \in InitRefreshLoops
    /\ OthersIdle({"refreshLoop"})

NextRefresh == RefreshCycle

SpecRefresh == InitRefresh /\ [][NextRefresh]_vars

\* C25: with constant signal results, at most two successive non-overlapping
\* cycles of a device write to storage, and once a cycle did not write no
\* later cycle writes, so the stored score no longer changes.  Checked under
\* SpecRefresh.
C25_AtMostTwoWrites ==
    refreshLoop # NoCall =>
       /\ Cardinality({i \in DOMAIN refreshLoop.wrote : refreshLoop.wrote[i]}) <= 2
       /\ \A i, j \in DOMAIN refreshLoop.wrote :
             (i < j /\ ~refreshLoop.wrote[i]) => ~refreshLoop.wrote[j]

C25_Witness ==
    /\ refreshLoop # NoCall
    /\ Len(refreshLoop.wrote) = MaxRefreshCycles
    /\ refreshLoop.wrote[1] /\ refreshLoop.wrote[2] /\ ~refreshLoop.wrote[3]

---------------------------------------------------------------------------
(* useWebSocket: connect, the onopen and onclose handlers, the reconnect
   timer and disconnect *)

MaxSockets == 4   \* WebSocket objects the hook creates in one behaviour

\* options.reconnectAttempts; 5 when the option is left out
ReconnectAttemptsOptions == {0, 1, 2, 5}

\* new WebSocket(url); wsRef.current = ws
connect(ws) ==
    [ws EXCEPT !.sockets = Append(ws.sockets, "connecting"),
               !.wsRef = Len(ws.sockets) + 1]

\* ws.onclose: schedule a reconnect while attempts are left
onclose(ws) ==
    IF ws.reconnectAttemptsRef < ws.reconnectAttempts
    THEN [ws EXCEPT !.timers = ws.timers \cup {ws.timerSeq + 1},
                    !.reconnectIntervalRef = ws.timerSeq + 1,
                    !.timerSeq = ws.timerSeq + 1]
    ELSE ws

\* the state after the mount effect ran connect()
InitWebSockets ==
    {connect([sockets |-> << >>, wsRef |-> 0, reconnectAttempts |-> n,
              reconnectAttemptsRef |-> 0, reconnectIntervalRef |-> 0,
              timers |-> {}, timerSeq |-> 0, unmounted |-> FALSE]) :
        n \in ReconnectAttemptsOptions}

\* the connection is established: ws.onopen
SocketOpen(i) ==
    /\ webSocket # NoCall
    /\ i \in DOMAIN webSocket.sockets
    /\ webSocket.sockets[i] = "connecting"
    /\ webSocket' = [webSocket EXCEPT !.sockets[i] = "open",
                                      !.reconnectAttemptsRef = 0]
    /\ UNCHANGED <<detectedMiners, cycle, now, started, reply, fuse, probe,
                   storage, refreshLoop, interactiveMap>>

\* the connection ends, by failure, by the server or after close(): the close
\* event is dispatched and ws.onclose runs
SocketClosed(i) ==
    /\ webSocket # NoCall
    /\ i \in DOMAIN webSocket.sockets
    /\ webSocket.sockets[i] \in {"connecting", "open", "closing"}
    /\ webSocket' = onclose([webSocket EXCEPT !.sockets[i] = "closed"])
    /\ UNCHANGED <<detectedMiners, cycle, now, started, reply, fuse, probe,
                   storage, refreshLoop, interactiveMap>>

\* the reconnect timer expires: reconnectAttemptsRef.current++; connect()
ReconnectTimer(t) ==
    /\ webSocket # NoCall
    /\ t \in webSocket.timers
    /\ Len(webSocket.sockets) < MaxSockets
    /\ webSocket' =
          connect([webSocket EXCEPT
                     !.timers = webSocket.timers \ {t},
                     !.reconnectAttemptsRef = webSocket.reconnectAttemptsRef + 1])
    /\ UNCHANGED <<detectedMiners, cycle, now, started, reply, fuse, probe,
                   storage, refreshLoop, interactiveMap>>

\* the effect's cleanup on unmount: clearTimeout, close the current socket
disconnect ==
    /\ webSocket # NoCall
    /\ ~webSocket.unmounted
    /\ LET ws == webSocket
           i == ws.wsRef
       IN webSocket' =
             [ws EXCEPT
                !.timers = IF ws.reconnectIntervalRef # 0
                           THEN ws.timers \ {ws.reconnectIntervalRef}
                           ELSE ws.timers,
                !.sockets = IF i # 0 /\ ws.sockets[i] \in {"connecting", "open"}
                            THEN [ws.sockets EXCEPT ![i] = "closing"]
                            ELSE ws.sockets,
                !.wsRef = 0,
                !.unmounted = TRUE]
    /\ UNCHANGED <<detectedMiners, cycle, now, started, reply, fuse, probe,
                   storage, refreshLoop, interactiveMap>>

InitSocket ==
    /\ CycleIdle
    /\ webSocket \in InitWebSockets
    /\ OthersIdle({"webSocket"})

NextSocket ==
    \/ \E i \in 1..MaxSockets : SocketOpen(i)
    \/ \E i \in 1..MaxSockets : SocketClosed(i)
    \/ \E t \in 1..MaxSockets : ReconnectTimer(t)
    \/ disconnect

SpecSocket == InitSocket /\ [][NextSocket]_vars

\* C26: after disconnect() has run the hook opens no new WebSocket and no
\* reconnect timer is pending.  Checked under SpecSocket.
C26_NoReconnectAfterDisconnect ==
    [][webSocket.unmounted =>
          /\ Len(webSocket'.sockets) = Len(webSocket.sockets)
          /\ webSocket'.timers = {}]_vars

\* C27: the 500 reply of a request neither rolls back nor cancels the work of
\* the other device cycles of its batch: the step that sends the error leaves
\* the store and every cycle as they are, and once the error is sent a cycle
\* waiting on its update can still write.  Checked under Spec.
C27_ErrorDoesNotUndo ==
    [][\A r \in Requests :
          /\ (reply[r] = NoReply /\ reply'[r] = InternalServerError)
                => (detectedMiners' = detectedMiners /\ cycle' = cycle)
          /\ reply[r] = InternalServerError
                => \A d \in Devices :
                      cycle[r][d].pc = "update" => ENABLED UpdateDone(r, d)]_vars

\* the client has its 500, one cycle of the batch failed and another cycle of
\* the batch has written its score
C27_Witness ==
    \E r \in Requests, d, e \in Devices :
       /\ reply[r] = InternalServerError
       /\ cycle[r][d].pc = "rejected"
       /\ cycle[r][e].pc = "done"
       /\ cycle[r][e].wrote
       /\ detectedMiners[e].confidenceScore = cycle[r][e].newScore
       /\ detectedMiners[e].confidenceScore # cycle[r][e].device.confidenceScore

---------------------------------------------------------------------------
(* Requests served one after the other *)

\* a request that arrives while no other request has a cycle or a reply
\* outstanding
GetApiMinersAlone(r, token) ==
    /\ \A q \in Requests :
          /\ reply[q] = NoReply
          /\ \A d \in Devices : cycle[q][d].pc = "idle"
    /\ GetApiMiners(r, token)

NextSeq ==
    \/ \E r \in Requests, token \in Tokens : GetApiMinersAlone(r, token)
    \/ \E r \in Requests, d \in Devices : GeoLookup(r, d)
    \/ \E r \in Requests, d \in Devices : NetworkScan(r, d)
    \/ \E r \in Requests, d \in Devices, readings \in RFWindows : RFAnalysis(r, d, readings)
    \/ \E r \in Requests, d \in Devices : UpdateDone(r, d)
    \/ \E r \in Requests, d \in Devices : UpdateFail(r, d)
    \/ \E r \in Requests : Reply(r)
    \/ \E r \in Requests : ReplyError(r)
    \/ \E r \in Requests : RequestEnd(r)

SpecSeq == Init /\ [][NextSeq]_vars

\* C28: the view object of a finished device cycle carries the score fused in
\* this cycle, written or not, and the detection time read when the cycle
\* began; when requests do not overlap and the score is a number, it differs
\* from the stored score by at most 5.  Checked under SpecSeq.
C28_ViewScoreNearStored ==
    \A r \in Requests, d \in Devices :
       cycle[r][d].pc = "done" =>
          /\ cycle[r][d].view.confidence_score = cycle[r][d].newScore
          /\ cycle[r][d].view.last_seen = cycle[r][d].device.detectionTime
          /\ ~IsNaN(cycle[r][d].newScore) =>
                MathAbs(cycle[r][d].newScore - detectedMiners[d].confidenceScore)
                   <= DeltaThreshold * Unit

\* a cycle that did not write returns a score other than the stored one,
\* and a cycle that wrote returns the detection time from before its write
C28_Witness ==
    /\ \E r \in Requests, d \in Devices :
          /\ cycle[r][d].pc = "done"
          /\ ~cycle[r][d].wrote
          /\ ~IsNaN(cycle[r][d].newScore)
          /\ cycle[r][d].view.confidence_score # detectedMiners[d].confidenceScore
    /\ \E r \in Requests, d \in Devices :
          /\ cycle[r][d].pc = "done"
          /\ cycle[r][d].wrote
          /\ cycle[r][d].view.last_seen # detectedMiners[d].detectionTime

---------------------------------------------------------------------------
(* The fused score over the documented input ranges *)

InUnitRange(x) == ~IsNaN(x) /\ x >= 0 /\ x <= Unit

\* ports 0..5, the four indicators in [0,1], an integer prior score 0..100
InDocumentedRange(call) ==
    /\ call.networkData # NullObj
    /\ call.networkData.miningPortsDetected \in {p * Unit : p \in 0..5}
    /\ InUnitRange(call.networkData.highBandwidthUsage)
    /\ InUnitRange(call.networkData.suspiciousConnections)
    /\ call.rfData # NullObj
    /\ InUnitRange(call.rfData.powerConsumption)
    /\ InUnitRange(call.rfData.heatSignature)
    /\ call.device.confidenceScore \in {k * Unit : k \in 0..100}

\* C29: for inputs within the documented ranges the fused score lies between
\* 0.1 and 92 inclusive, so neither clamp bound is active and 100 is out of
\* reach, and the network term contributes at most 50.  Checked under
\* SpecFuse.
C29_ScoreWithinReach ==
    (fuse.pc = "returned" /\ InDocumentedRange(fuse)) =>
       /\ fuse.result >= Unit \div 10
       /\ fuse.result <= 92 * Unit
       /\ NetworkTerm(fuse.networkData) <= 50 * Unit

\* the upper end is reached: 92 with every signal at its maximum, the
\* network term at 50
C29_Witness ==
    /\ fuse.pc = "returned"
    /\ InDocumentedRange(fuse)
    /\ fuse.result = 92 * Unit
    /\ NetworkTerm(fuse.networkData) = 50 * Unit

\* the lower end is reached from a prior of 1 with every signal at 0
C29_LowerEnd ==
    /\ fuse.pc = "returned"
    /\ InDocumentedRange(fuse)
    /\ fuse.result = Unit \div 10

---------------------------------------------------------------------------
(* InteractiveMap: fetchWithRetry and the periodic refresh *)

MAX_RETRIES == 3

MaxRefreshes == 3   \* calls of fetchLocations in one behaviour

\* fetchWithRetry at the head of its while loop, for refresh i: issue a
\* request while retryCountRef.current < MAX_RETRIES; otherwise the loop is
\* skipped, fetchWithRetry returns undefined and data.filter throws
WhileLoop(map, i) ==
    IF map.retryCountRef < MAX_RETRIES
    THEN [map EXCEPT !.refreshes[i].pc = "fetching",
                     !.refreshes[i].requests = map.refreshes[i].requests + 1]
    ELSE [map EXCEPT !.refreshes[i].pc = "failed", !.error = TRUE]

\* fetchLocations(): setError(null), then fetchWithRetry('/api/miners')
fetchLocations(map) ==
    WhileLoop([map EXCEPT !.refreshes = Append(map.refreshes,
                                               [pc |-> "start", requests |-> 0]),
                          !.error = FALSE],
              Len(map.refreshes) + 1)

\* the state after the mount effect called fetchLocations()
InitInteractiveMap ==
    fetchLocations([retryCountRef |-> 0, refreshes |-> << >>, error |-> FALSE])

\* setInterval(fetchLocations, REFRESH_INTERVAL) fires
RefreshTick ==
    /\ interactiveMap # NoCall
    /\ Len(interactiveMap.refreshes) < MaxRefreshes
    /\ interactiveMap' = fetchLocations(interactiveMap)
    /\ UNCHANGED <<detectedMiners, cycle, now, started, reply, fuse, probe,
                   storage, refreshLoop, webSocket>>

\* the request of refresh i is answered with a 2xx body: the counter is reset
\* and the locations are set
FetchOk(i) ==
    /\ interactiveMap # NoCall
    /\ i \in DOMAIN interactiveMap.refreshes
    /\ interactiveMap.refreshes[i].pc = "fetching"
    /\ interactiveMap' = [interactiveMap EXCEPT !.retryCountRef = 0,
                                                !.refreshes[i].pc = "done"]
    /\ UNCHANGED <<detectedMiners, cycle, now, started, reply, fuse, probe,
                   storage, refreshLoop, webSocket>>

\* the request of refresh i fails (network error or a status that is not ok):
\* the catch block counts it and rethrows at MAX_RETRIES, else waits
FetchError(i) ==
    /\ interactiveMap # NoCall
    /\ i \in DOMAIN interactiveMap.refreshes
    /\ interactiveMap.refreshes[i].pc = "fetching"
    /\ LET retryCount == interactiveMap.retryCountRef + 1
       IN interactiveMap' =
             IF retryCount = MAX_RETRIES
             THEN [interactiveMap EXCEPT !.retryCountRef = retryCount,
                                         !.refreshes[i].pc = "failed",
                                         !.error = TRUE]
             ELSE [interactiveMap EXCEPT !.retryCountRef = retryCount,
                                         !.refreshes[i].pc = "delay"]
    /\ UNCHANGED <<detectedMiners, cycle, now, started, reply, fuse, probe,
                   storage, refreshLoop, webSocket>>

\* the retry delay of refresh i is over: back to the head of the loop
RetryDelayOver(i) ==
    /\ interactiveMap # NoCall
    /\ i \in DOMAIN interactiveMap.refreshes
    /\ interactiveMap.refreshes[i].pc = "delay"
    /\ interactiveMap' = WhileLoop(interactiveMap, i)
    /\ UNCHANGED <<detectedMiners, cycle, now, started, reply, fuse, probe,
                   storage, refreshLoop, webSocket>>

InitMap ==
    /\ CycleIdle
    /\ interactiveMap = InitInteractiveMap
    /\ OthersIdle({"interactiveMap"})

NextMap ==
    \/ RefreshTick
    \/ \E i \in 1..MaxRefreshes : FetchOk(i)
    \/ \E i \in 1..MaxRefreshes : FetchError(i)
    \/ \E i \in 1..MaxRefreshes : RetryDelayOver(i)

SpecMap == InitMap /\ [][NextMap]_vars

\* C30: every refresh of the map issues at least one and at most 3 requests
\* to /api/miners, also after an earlier refresh used up its 3 attempts.
\* Checked under SpecMap.
C30_RetryBudgetPerRefresh ==
    interactiveMap # NoCall =>
       \A i \in DOMAIN interactiveMap.refreshes :
          /\ interactiveMap.refreshes[i].requests <= MAX_RETRIES
          /\ interactiveMap.refreshes[i].pc \in {"done", "failed"}
                => interactiveMap.refreshes[i].requests >= 1

====
